---- MODULE Spec2Model ----
(***************************************************************************)
(* Model of package s3preup (s3.go, s3_test.go): the S3Provider built by   *)
(* New, its operation PresignedUploadURL, the signing collaborator         *)
(* (s3.PresignClient.PresignPutObject) as an environment that answers      *)
(* each request with a request/error pair, and the test double            *)
(* testS3Provider of s3_test.go.                                           *)
(*                                                                         *)
(* Strings are sequences of tokens, so that the empty string is <<>> and   *)
(* "contains" is computable; a token is a run of characters.               *)
(* Durations are whole seconds.                                            *)
(***************************************************************************)
EXTENDS Integers, Sequences, FiniteSets, TLC

MaxCalls == 2

\* ---------------------------------------------------------------- values

NilErr == "nil"
NilReq == [nil |-> TRUE]
NilProvider == [nil |-> TRUE]
NilClient == [nil |-> TRUE]
NoCall == [call |-> 0]

EmptyString == <<>>

TestBucket == <<"test-bucket">>
OtherBucket == <<"other-bucket">>
Buckets == {TestBucket, OtherBucket}

Regions == {"us-east-1"}

ValidKey == <<"uploads/", "test-file.txt">>
TraversalKey == <<"../", "secret">>
SpaceKey == <<"uploads/", "my", " ", "file.txt">>
Destinations == {EmptyString, ValidKey, TraversalKey, SpaceKey}

FifteenMinutes == 900
\* The longest signing window the service accepts: seven days.
ServiceMaxExpires == 7 * 24 * 3600
Expiries == {-1, 0, FifteenMinutes, ServiceMaxExpires + 1}

ExpectedURL == <<"https://", "test-bucket", ".s3.amazonaws.com/", "uploads/", "test-file.txt">>

PresignError == "presign error"
ExpiryError == "invalid expiry"
ConfigErrors == {"config error"}

\* ---------------------------------------------------------------- strings

Contains(s, sub) ==
    \E i \in 0..(Len(s) - Len(sub)) : SubSeq(s, i + 1, i + Len(sub)) = sub

\* ---------------------------------------------------------------- signing collaborator

\* The signer writes the key into the path of the URL percent-encoded: runs of
\* unreserved characters and "/" stay as they are, a space becomes %20.
EscapeToken(t) == IF t = " " THEN "%20" ELSE t

EscapePath(key) == [i \in 1..Len(key) |-> EscapeToken(key[i])]

\* The URL the signer makes for a request: the bucket in the host, the escaped
\* key as the path. The query string, which carries the signature and the
\* expiry, is left out.
SignedURL(params) ==
    <<"https://">> \o params.Bucket \o <<".s3.amazonaws.com/">> \o EscapePath(params.Key)

\* What PresignPutObject may hand back for a request: on success a request
\* carrying the signed URL for that bucket and key, on failure an error with
\* either no request or a request left behind.
CollaboratorAnswers(params) ==
    { [req |-> [URL |-> SignedURL(params)], err |-> NilErr],
      [req |-> NilReq, err |-> ExpiryError],
      [req |-> [URL |-> SignedURL(params)], err |-> PresignError] }

\* ---------------------------------------------------------------- state

VARIABLES
    newCall,    \* the invocation of New: its arguments and what the SDK's config loading returned
    provider,   \* the *S3Provider returned by New (NilProvider until then, and on failure)
    newErr,     \* the error returned by New
    clients,    \* the presign clients constructed so far
    calls,      \* one record per PresignedUploadURL call: position, arguments, answer, result
    log,        \* the requests received by the signing collaborator, in order
    tcall       \* the last run of testS3Provider.PresignedUploadURL

vars == <<newCall, provider, newErr, clients, calls, log, tcall>>

CallIds == 1..MaxCalls

\* The answer slot of a call the collaborator has not answered yet.
NoAnswer == [req |-> NilReq, err |-> NilErr]

IdleCall == [pc |-> "idle", destination |-> EmptyString, expires |-> 0,
             answer |-> NoAnswer, url |-> EmptyString, err |-> NilErr]

\* The positions in the collaborator's log of the requests made by call k.
InvocationsOf(k) == { i \in 1..Len(log) : log[i].call = k }

Init ==
    /\ newCall = [pc |-> "idle"]
    /\ provider = NilProvider
    /\ newErr = NilErr
    /\ clients = {}
    /\ calls = [k \in CallIds |-> IdleCall]
    /\ log = <<>>
    /\ tcall = NoCall

\* ---------------------------------------------------------------- New

\* s3.NewPresignClient(s3.NewFromConfig(cfg))
NewPresignClient(region) == [Region |-> region]

\* Variant: the configuration error is wrapped before it is returned.
NewWrappingError(bucket, region, cfgErr) ==
    /\ newCall.pc = "idle"
    /\ newCall' = [pc |-> "done", bucket |-> bucket, region |-> region, cfgErr |-> cfgErr]
    /\ IF cfgErr # NilErr
       THEN /\ provider' = NilProvider
            /\ newErr' = "s3preup: " \o cfgErr
            /\ clients' = clients
       ELSE /\ provider' = [bucket |-> bucket, presignClient |-> NewPresignClient(region)]
            /\ newErr' = NilErr
            /\ clients' = clients \cup {NewPresignClient(region)}
    /\ UNCHANGED <<calls, log, tcall>>

\* Variant: the provider is filled with the region in place of the bucket.
NewStoringRegion(bucket, region, cfgErr) ==
    /\ newCall.pc = "idle"
    /\ newCall' = [pc |-> "done", bucket |-> bucket, region |-> region, cfgErr |-> cfgErr]
    /\ IF cfgErr # NilErr
       THEN /\ provider' = NilProvider
            /\ newErr' = cfgErr
            /\ clients' = clients
       ELSE /\ provider' = [bucket |-> <<region>>, presignClient |-> NewPresignClient(region)]
            /\ newErr' = NilErr
            /\ clients' = clients \cup {NewPresignClient(region)}
    /\ UNCHANGED <<calls, log, tcall>>

New(bucket, region, cfgErr) ==
    /\ newCall.pc = "idle"
    /\ newCall' = [pc |-> "done", bucket |-> bucket, region |-> region, cfgErr |-> cfgErr]
    /\ IF cfgErr # NilErr
       THEN /\ provider' = NilProvider
            /\ newErr' = cfgErr
            /\ clients' = clients
       ELSE /\ provider' = [bucket |-> bucket, presignClient |-> NewPresignClient(region)]
            /\ newErr' = NilErr
            /\ clients' = clients \cup {NewPresignClient(region)}
    /\ UNCHANGED <<calls, log, tcall>>

\* ---------------------------------------------------------------- PresignedUploadURL

\* Variant: the two fields of the request are filled the wrong way round.
PutObjectInputSwapped(p, destination) == [Bucket |-> destination, Key |-> p.bucket]

\* &s3.PutObjectInput{Bucket: aws.String(p.bucket), Key: aws.String(destination)}
PutObjectInput(p, destination) == [Bucket |-> p.bucket, Key |-> destination]

\* func(po *s3.PresignOptions) { po.Expires = expires }
PresignOptions(expires) == [Expires |-> expires]

\* The invocation of the collaborator as the collaborator sees it.
Invocation(k, p, destination, expires) ==
    [call |-> k, client |-> p.presignClient,
     params |-> PutObjectInput(p, destination), options |-> PresignOptions(expires)]

\* Variant: the URL of the request is returned whether or not there is an error.
PresignedUploadURLResultPartial(answer) ==
    [url |-> IF answer.req = NilReq THEN EmptyString ELSE answer.req.URL,
     err |-> answer.err]

\* Variant: the URL is given a trailing suffix before it is returned.
PresignedUploadURLResultSuffixed(answer) ==
    IF answer.err # NilErr
    THEN [url |-> EmptyString, err |-> answer.err]
    ELSE [url |-> answer.req.URL \o <<"?">>, err |-> NilErr]

\* Variant: only the scheme and host part of the URL is returned.
PresignedUploadURLResultTruncated(answer) ==
    IF answer.err # NilErr
    THEN [url |-> EmptyString, err |-> answer.err]
    ELSE [url |-> IF Len(answer.req.URL) > 2 THEN SubSeq(answer.req.URL, 1, 2)
                                               ELSE answer.req.URL,
          err |-> NilErr]

\* if err != nil { return "", err }; return presignedPutRequest.URL, nil
PresignedUploadURLResult(answer) ==
    IF answer.err # NilErr
    THEN [url |-> EmptyString, err |-> answer.err]
    ELSE [url |-> answer.req.URL, err |-> NilErr]

\* Variant: the destination is kept in the receiver.
PresignedUploadURLWritingProvider(k, destination, expires) ==
    /\ provider # NilProvider
    /\ calls[k].pc = "idle"
    /\ k > 1 => calls[k - 1].pc # "idle"
    /\ calls' = [calls EXCEPT ![k] = [@ EXCEPT !.pc = "signing",
                                               !.destination = destination,
                                               !.expires = expires]]
    /\ log' = Append(log, Invocation(k, provider, destination, expires))
    /\ provider' = [provider EXCEPT !.bucket = destination]
    /\ UNCHANGED <<newCall, newErr, clients, tcall>>

\* Variant: arguments outside the service's limits are rejected locally.
PresignedUploadURLValidating(k, destination, expires) ==
    /\ provider # NilProvider
    /\ calls[k].pc = "idle"
    /\ k > 1 => calls[k - 1].pc # "idle"
    /\ IF destination = EmptyString \/ expires <= 0 \/ expires > ServiceMaxExpires
       THEN /\ calls' = [calls EXCEPT ![k] = [@ EXCEPT !.pc = "done",
                                                       !.destination = destination,
                                                       !.expires = expires,
                                                       !.err = "invalid argument"]]
            /\ log' = log
       ELSE /\ calls' = [calls EXCEPT ![k] = [@ EXCEPT !.pc = "signing",
                                                       !.destination = destination,
                                                       !.expires = expires]]
            /\ log' = Append(log, Invocation(k, provider, destination, expires))
    /\ UNCHANGED <<newCall, provider, newErr, clients, tcall>>

\* Entry of PresignedUploadURL up to the hand-over to the collaborator.
\* Call identifiers are handed out in the order the calls start; the calls
\* run concurrently and return in any order.
PresignedUploadURL(k, destination, expires) ==
    /\ provider # NilProvider
    /\ calls[k].pc = "idle"
    /\ k > 1 => calls[k - 1].pc # "idle"
    /\ calls' = [calls EXCEPT ![k] = [@ EXCEPT !.pc = "signing",
                                               !.destination = destination,
                                               !.expires = expires]]
    /\ log' = Append(log, Invocation(k, provider, destination, expires))
    /\ UNCHANGED <<newCall, provider, newErr, clients, tcall>>

\* Variant: a failed signing attempt is tried once more.
PresignPutObjectReturnsRetrying(k, answer) ==
    /\ calls[k].pc = "signing"
    /\ IF answer.err # NilErr /\ Cardinality(InvocationsOf(k)) < 2
       THEN /\ log' = Append(log, Invocation(k, provider, calls[k].destination, calls[k].expires))
            /\ calls' = calls
       ELSE /\ LET r == PresignedUploadURLResult(answer)
               IN calls' = [calls EXCEPT ![k] = [@ EXCEPT !.pc = "done", !.answer = answer,
                                                          !.url = r.url, !.err = r.err]]
            /\ log' = log
    /\ UNCHANGED <<newCall, provider, newErr, clients, tcall>>

\* The collaborator answers and PresignedUploadURL returns.
PresignPutObjectReturns(k, answer) ==
    /\ calls[k].pc = "signing"
    /\ LET r == PresignedUploadURLResult(answer)
       IN calls' = [calls EXCEPT ![k] = [@ EXCEPT !.pc = "done", !.answer = answer,
                                                  !.url = r.url, !.err = r.err]]
    /\ UNCHANGED <<newCall, provider, newErr, clients, log, tcall>>

\* ---------------------------------------------------------------- test double

\* mockPresignClient.PresignPutObject: args.String(0), args.Error(1); the mock
\* is programmed with the URL string and the error of a collaborator answer.
MockPresignPutObject(answer) ==
    [url |-> IF answer.req = NilReq THEN EmptyString ELSE answer.req.URL,
     err |-> answer.err]

\* testS3Provider.PresignedUploadURL returns the mock's pair as it is.
TestPresignedUploadURLResult(answer) == MockPresignPutObject(answer)

\* The run of testS3Provider.PresignedUploadURL on the arguments of call k,
\* its bucket the provider's and its mock programmed with the answer call k got.
\* The double is run against the call that started first.
TestPresignedUploadURL(k) ==
    /\ k = 1
    /\ calls[k].pc = "done"
    /\ tcall = NoCall
    /\ LET r == TestPresignedUploadURLResult(calls[k].answer)
       IN tcall' = [call |-> k,
                    params |-> PutObjectInput([bucket |-> provider.bucket], calls[k].destination),
                    options |-> PresignOptions(calls[k].expires),
                    url |-> r.url, err |-> r.err]
    /\ UNCHANGED <<newCall, provider, newErr, clients, calls, log>>

\* ---------------------------------------------------------------- specification

Next ==
    \/ \E b \in Buckets, r \in Regions, e \in {NilErr} \cup ConfigErrors : New(b, r, e)
    \/ \E k \in CallIds, d \in Destinations, x \in Expiries : PresignedUploadURL(k, d, x)
    \/ \E k \in CallIds : \E i \in InvocationsOf(k) : \E a \in CollaboratorAnswers(log[i].params) :
          PresignPutObjectReturns(k, a)
    \/ \E k \in CallIds : TestPresignedUploadURL(k)

Spec == Init /\ [][Next]_vars

TypeOK ==
    /\ newCall.pc \in {"idle", "done"}
    /\ \A k \in CallIds : calls[k].pc \in {"idle", "signing", "done"}
    /\ Len(log) <= MaxCalls

\* ---------------------------------------------------------------- properties

Done(k) == calls[k].pc = "done"

\* C1: when the collaborator answers with an error, the call returns that very
\* error and the empty string, also when the collaborator left a request behind.
C1_ErrorVerbatimEmptyURL ==
    \A k \in CallIds :
        (Done(k) /\ calls[k].answer.err # NilErr)
            => (calls[k].err = calls[k].answer.err /\ calls[k].url = EmptyString)

C1_Witness ==
    \E k \in CallIds :
        /\ Done(k)
        /\ calls[k].answer = [req |-> [URL |-> ExpectedURL], err |-> PresignError]
        /\ calls[k].err = PresignError
        /\ calls[k].url = EmptyString

\* C2: when the collaborator succeeds, the call returns the collaborator's URL
\* unmodified and a nil error.
C2_SuccessReturnsCollaboratorURL ==
    \A k \in CallIds :
        (Done(k) /\ calls[k].answer.err = NilErr)
            => (calls[k].url = calls[k].answer.req.URL /\ calls[k].err = NilErr)

C2_Witness ==
    \E k \in CallIds :
        /\ Done(k)
        /\ provider.bucket = TestBucket
        /\ calls[k].destination = ValidKey
        /\ calls[k].expires = FifteenMinutes
        /\ calls[k].answer = [req |-> [URL |-> ExpectedURL], err |-> NilErr]
        /\ calls[k].url = ExpectedURL
        /\ calls[k].err = NilErr

\* C3: every request the collaborator receives carries the bucket given to New,
\* the destination of the call that made it and that call's expiry.
C3_RequestCarriesBucketKeyExpiry ==
    \A i \in 1..Len(log) :
        /\ log[i].params.Bucket = newCall.bucket
        /\ log[i].params.Key = calls[log[i].call].destination
        /\ log[i].options.Expires = calls[log[i].call].expires

C3_Witness ==
    \E i \in 1..Len(log) :
        /\ newCall.bucket = OtherBucket
        /\ log[i].params = [Bucket |-> OtherBucket, Key |-> TraversalKey]
        /\ log[i].options = [Expires |-> FifteenMinutes]
        /\ calls[log[i].call].destination = TraversalKey

\* C4: when configuration loading fails, New returns a nil provider and the
\* SDK's error as it is, and constructs no signing client.
C4_ConfigErrorVerbatimNilProvider ==
    (newCall.pc = "done" /\ newCall.cfgErr # NilErr)
        => (provider = NilProvider /\ newErr = newCall.cfgErr /\ clients = {})

C4_Witness ==
    /\ newCall.pc = "done"
    /\ newCall.cfgErr \in ConfigErrors
    /\ newErr = newCall.cfgErr
    /\ provider = NilProvider

\* C5: when configuration loading succeeds, New returns a nil error and a
\* provider holding the bucket argument and a signing client; in every outcome
\* exactly one of provider and error is non-nil.
C5_NewSuccessProvider ==
    newCall.pc = "done" =>
        /\ (provider # NilProvider) <=> (newErr = NilErr)
        /\ newCall.cfgErr = NilErr =>
              /\ newErr = NilErr
              /\ provider # NilProvider
              /\ provider.bucket = newCall.bucket
              /\ provider.presignClient # NilClient
              /\ provider.presignClient \in clients

C5_Witness ==
    /\ newCall.pc = "done"
    /\ newCall.cfgErr = NilErr
    /\ newCall.bucket = TestBucket
    /\ provider = [bucket |-> TestBucket, presignClient |-> NewPresignClient("us-east-1")]
    /\ newErr = NilErr

\* The request call k handed to the collaborator.
RequestOf(k) == log[CHOOSE i \in InvocationsOf(k) : TRUE]

\* Two calls with the same arguments make the same request, and with the same
\* answer as well they return the same result, whatever else was called.
Independent ==
    \A j, k \in CallIds :
        (/\ calls[j].pc # "idle" /\ calls[k].pc # "idle"
         /\ calls[j].destination = calls[k].destination
         /\ calls[j].expires = calls[k].expires)
            => /\ RequestOf(j).params = RequestOf(k).params
               /\ RequestOf(j).options = RequestOf(k).options
               /\ RequestOf(j).client = RequestOf(k).client
               /\ (Done(j) /\ Done(k) /\ calls[j].answer = calls[k].answer)
                     => (calls[j].url = calls[k].url /\ calls[j].err = calls[k].err)

\* No step after New changes the provider or the set of signing clients, and a
\* step changes the record of at most one call.
ProviderStable ==
    /\ newCall.pc = "done" => (provider' = provider /\ clients' = clients)
    /\ \A j, k \in CallIds : (calls'[j] # calls[j] /\ calls'[k] # calls[k]) => j = k

\* C6: after construction the provider keeps the bucket and the signing client
\* New set, under every interleaving of calls, and what a call requests and
\* returns is determined by its own arguments and the answer it got.
C6_ProviderNeverWritten == []Independent /\ [][ProviderStable]_vars

C6_Witness ==
    /\ MaxCalls >= 2
    /\ calls[1].pc = "signing"
    /\ Done(2)
    /\ calls[1].destination # calls[2].destination
    /\ calls[1].expires # calls[2].expires
    /\ provider = [bucket |-> newCall.bucket, presignClient |-> NewPresignClient(newCall.region)]
    /\ RequestOf(1).params.Key = calls[1].destination
    /\ RequestOf(2).params.Key = calls[2].destination

\* C7: every call that has started has invoked the collaborator exactly once,
\* also after a failed attempt, and ends with the error status of that invocation.
C7_ExactlyOneInvocation ==
    \A k \in CallIds :
        /\ Cardinality(InvocationsOf(k)) = IF calls[k].pc = "idle" THEN 0 ELSE 1
        /\ Done(k) => ((calls[k].err = NilErr) <=> (calls[k].answer.err = NilErr))

C7_Witness ==
    \E k \in CallIds :
        /\ Done(k)
        /\ calls[k].answer.err = ExpiryError
        /\ calls[k].err = ExpiryError
        /\ Cardinality(InvocationsOf(k)) = 1

\* C8: whatever the destination and the expiry, the collaborator is invoked
\* with them unchanged, and a call returns an error only if the collaborator did.
C8_NoLocalValidation ==
    \A k \in CallIds :
        /\ calls[k].pc # "idle" =>
              \E i \in InvocationsOf(k) :
                  /\ log[i].params.Key = calls[k].destination
                  /\ log[i].options.Expires = calls[k].expires
        /\ (Done(k) /\ calls[k].err # NilErr) => calls[k].answer.err # NilErr

C8_Witness ==
    \E j, k \in CallIds :
        /\ Done(j) /\ Done(k)
        /\ calls[j].destination = EmptyString /\ calls[j].expires = -1
        /\ calls[k].destination = TraversalKey /\ calls[k].expires > ServiceMaxExpires
        /\ calls[j].err = NilErr /\ calls[k].err = NilErr
        /\ RequestOf(j).params.Key = EmptyString /\ RequestOf(j).options.Expires = -1
        /\ RequestOf(k).params.Key = TraversalKey

\* The inputs section 3 of the specification calls valid.
Valid(bucket, key, expires) ==
    bucket # EmptyString /\ key # EmptyString /\ expires > 0 /\ expires <= ServiceMaxExpires

Mentions(url, bucket, key) ==
    url # EmptyString /\ Contains(url, bucket) /\ Contains(url, key)

\* C9 as stated: a successful call on valid inputs returns a non-empty URL that
\* contains the bucket and the key.
C9_SuccessURLMentionsBucketAndKey ==
    \A k \in CallIds :
        (Done(k) /\ calls[k].err = NilErr
         /\ Valid(provider.bucket, calls[k].destination, calls[k].expires))
            => Mentions(calls[k].url, provider.bucket, calls[k].destination)

\* C9 amended: a successful call on valid inputs returns a non-empty URL that
\* contains the bucket and the key in its percent-encoded form, which is the
\* key itself when no character of it needs escaping.
C9_SuccessURLMentionsBucketAndEscapedKey ==
    \A k \in CallIds :
        (Done(k) /\ calls[k].err = NilErr
         /\ Valid(provider.bucket, calls[k].destination, calls[k].expires))
            => /\ Mentions(calls[k].url, provider.bucket, EscapePath(calls[k].destination))
               /\ EscapePath(calls[k].destination) = calls[k].destination
                     => Contains(calls[k].url, calls[k].destination)

C9_Witness ==
    \E j, k \in CallIds :
        /\ Done(j) /\ calls[j].err = NilErr
        /\ Done(k) /\ calls[k].err = NilErr
        /\ calls[j].expires = FifteenMinutes /\ calls[k].expires = FifteenMinutes
        /\ calls[j].destination = SpaceKey
        /\ Contains(calls[j].url, provider.bucket \o <<".s3.amazonaws.com/", "uploads/", "my", "%20", "file.txt">>)
        /\ ~Contains(calls[j].url, SpaceKey)
        /\ calls[k].destination = ValidKey
        /\ Contains(calls[k].url, provider.bucket) /\ Contains(calls[k].url, ValidKey)

\* C10: a run of the test double on the arguments and the collaborator answer
\* of a call sends the same bucket, key and expiry and returns the same pair.
C10_TestDoubleEquivalent ==
    tcall # NoCall =>
        /\ tcall.params = RequestOf(tcall.call).params
        /\ tcall.options = RequestOf(tcall.call).options
        /\ tcall.url = calls[tcall.call].url
        /\ tcall.err = calls[tcall.call].err

====
